---- MODULE Spec2Model ----
(***************************************************************************)
(* Model of the mpl_bubblegum native library (Rust NIFs for Elixir):       *)
(* lib.rs (exported NIFs), types.rs (boundary conversions),                *)
(* instructions.rs (transaction builders) and utils.rs (hashing and        *)
(* asset-id derivation).                                                   *)
(*                                                                         *)
(* The library is stateless: every NIF call takes its arguments, runs and  *)
(* returns.  The model keeps one call at a time: pc = "idle" between calls,*)
(* pc = "returned" after a call, with the call's arguments, the calls it   *)
(* made into the builders / hashers / deriver, and what it gave back.      *)
(* sign_and_submit_transaction talks to the RPC node twice; between its    *)
(* request and the node's answer pc is "blockhash", then "submit".         *)
(***************************************************************************)
EXTENDS Integers, Sequences, FiniteSets, TLC

VARIABLES
    pc,               \* "idle" between calls, "returned" after a NIF call;
                      \* "blockhash" / "submit" while sign_and_submit_transaction
                      \* waits for the RPC node
    op,               \* the NIF that was called
    args,             \* its arguments as they crossed the boundary
    handed,           \* the calls it made into instructions.rs / utils.rs
    built,            \* the instruction list a builder handed to Message::new
    result,           \* what the NIF gave back
    overflow_checks   \* whether the arithmetic of the call was compiled with
                      \* overflow checks (debug profile) or without (release);
                      \* only create_tree_config computes anything that overflows
VARIABLE
    rpc               \* the requests the call sent to the RPC node, in order,
                      \* each with the node's answer once it came

vars == <<pc, op, args, handed, built, result, overflow_checks, rpc>>

-----------------------------------------------------------------------------
(* Bounds of the model *)

\* longest creator list supplied to a call
MaxCreators == 2
\* how many byte-sequence arguments of one call may have a wrong length
MaxMalformed == 1
\* longest list of secret keys drawn freely (the list of all four signers of a
\* tree-creation transaction is supplied besides)
MaxKeys == 2

-----------------------------------------------------------------------------
(* Program constants *)

\* [0u8; 32] in From<ElixirPubkey> for Pubkey
PUBKEY_BYTES == 32
\* [0u8; 32] in From<ElixirHash> for [u8; 32] and the [u8; 32] digests of transfer
HASH_BYTES == 32
\* width of usize on the 64-bit targets the library is built for
USIZE_BITS == 64
\* 8 + 32 + 1 (tree_config_space)
TREE_CONFIG_SPACE == 41
\* 8 + 32 + 32 (header_size)
HEADER_SIZE == 72
\* Rent::default(): lamports per byte-year, exemption threshold, storage overhead
LAMPORTS_PER_BYTE_YEAR == 3480
EXEMPTION_THRESHOLD == 2
ACCOUNT_STORAGE_OVERHEAD == 128
\* u8::MAX, the first bump seed of Pubkey::find_program_address
U8_MAX == 255
\* length Keypair::from_bytes asks for: 32 bytes of secret, 32 of public key
KEYPAIR_BYTES == 64
\* length of a signature; Signature::default() is that many zero bytes
SIGNATURE_BYTES == 64

-----------------------------------------------------------------------------
(* Byte sequences and little-endian encodings *)

Bytes(n, b) == [i \in 1..n |-> b]

RECURSIVE LE(_, _)
\* to_le_bytes of an unsigned integer n on k bytes
LE(n, k) == IF k = 0 THEN <<>> ELSE <<n % 256>> \o LE(n \div 256, k - 1)

RECURSIVE Pow2(_)
Pow2(e) == IF e = 0 THEN 1 ELSE 2 * Pow2(e - 1)

RECURSIVE Concat(_)
\* concatenation of a sequence of byte sequences
Concat(ss) == IF ss = <<>> THEN <<>> ELSE Head(ss) \o Concat(Tail(ss))

None == [some |-> FALSE]
Some(x) == [some |-> TRUE, v |-> x]

\* Rust outcomes of a call: a value, an Err(..) or a panic unwinding the call
Ok(v) == [kind |-> "Ok", val |-> v]
Err(m) == [kind |-> "Err", msg |-> m]
Panic(m) == [kind |-> "Panic", msg |-> m]

-----------------------------------------------------------------------------
(* Program ids of the external programs (fixed 32-byte addresses) *)

SYSTEM_PROGRAM_ID == Bytes(PUBKEY_BYTES, 0)
BUBBLEGUM_ID == Bytes(PUBKEY_BYTES, 201)
SPL_ACCOUNT_COMPRESSION_ID == Bytes(PUBKEY_BYTES, 202)
SPL_NOOP_ID == Bytes(PUBKEY_BYTES, 203)

\* instruction discriminators of the ledger program
CREATE_TREE_CONFIG_DISCRIMINATOR == <<165, 83, 136, 142, 89, 202, 47, 220>>
MINT_V1_DISCRIMINATOR == <<145, 98, 192, 118, 184, 147, 118, 104>>
TRANSFER_DISCRIMINATOR == <<163, 52, 200, 231, 140, 3, 69, 186>>

-----------------------------------------------------------------------------
(* types.rs: boundary conversions *)

\* From<ElixirPubkey> for Pubkey: copy_from_slice panics unless the source
\* slice has exactly the length of the destination array
Pubkey_from(bytes) ==
    IF Len(bytes) = PUBKEY_BYTES
    THEN Ok(bytes)
    ELSE Panic("source slice length does not match destination slice length")

\* From<ElixirHash> for [u8; 32]
Hash_from(bytes) ==
    IF Len(bytes) = HASH_BYTES
    THEN Ok(bytes)
    ELSE Panic("source slice length does not match destination slice length")

\* From<Pubkey> for ElixirPubkey / From<[u8; 32]> for ElixirHash: to_vec()
ElixirPubkey_from(pubkey) == [bytes |-> pubkey]
ElixirHash_from(hash) == [bytes |-> hash]

\* TryFrom<ElixirCreator> for Creator
Creator_try_from(creator) ==
    LET address == Pubkey_from(creator.address)
    IN  IF address.kind # "Ok" THEN address
        ELSE Ok([address |-> address.val,
                 verified |-> creator.verified,
                 share |-> creator.share])

\* TryFrom<ElixirCollection> for Collection
Collection_try_from(collection) ==
    LET key == Pubkey_from(collection.key)
    IN  IF key.kind # "Ok" THEN key
        ELSE Ok([verified |-> collection.verified, key |-> key.val])

\* match uses.use_method { 0 => Burn, 1 => Multiple, 2 => Single, _ => Err }
UseMethod_match(code) ==
    CASE code = 0 -> Ok("Burn")
      [] code = 1 -> Ok("Multiple")
      [] code = 2 -> Ok("Single")
      [] OTHER -> Err(<<"Invalid use method", code>>)

\* TryFrom<ElixirUses> for Uses
Uses_try_from(uses) ==
    LET use_method == UseMethod_match(uses.use_method)
    IN  IF use_method.kind # "Ok" THEN use_method
        ELSE Ok([use_method |-> use_method.val,
                 remaining |-> uses.remaining,
                 total |-> uses.total])

\* match metadata.token_program_version { 0 => Original, 1 => Token2022, _ => Err }
TokenProgramVersion_match(code) ==
    CASE code = 0 -> Ok("Original")
      [] code = 1 -> Ok("Token2022")
      [] OTHER -> Err(<<"Invalid token program version", code>>)

\* (mutation) an unknown token standard falls back to the first variant
TokenStandard_match_defaulting(code) ==
    CASE code = 1 -> Ok("FungibleAsset")
      [] code = 2 -> Ok("Fungible")
      [] code = 3 -> Ok("NonFungibleEdition")
      [] OTHER -> Ok("NonFungible")

\* match ts { 0 => NonFungible, 1 => FungibleAsset, 2 => Fungible,
\*            3 => NonFungibleEdition, _ => Err }
TokenStandard_match(code) ==
    CASE code = 0 -> Ok("NonFungible")
      [] code = 1 -> Ok("FungibleAsset")
      [] code = 2 -> Ok("Fungible")
      [] code = 3 -> Ok("NonFungibleEdition")
      [] OTHER -> Err(<<"Invalid token standard", code>>)

RECURSIVE Creators_collect_reversed(_)
\* (mutation) the converted creators are gathered back to front
Creators_collect_reversed(creators) ==
    IF creators = <<>> THEN Ok(<<>>)
    ELSE LET first == Creator_try_from(Head(creators))
         IN  IF first.kind # "Ok" THEN first
             ELSE LET rest == Creators_collect_reversed(Tail(creators))
                  IN  IF rest.kind # "Ok" THEN rest
                      ELSE Ok(rest.val \o <<first.val>>)

RECURSIVE Creators_collect(_)
\* creators.into_iter().map(|c| c.try_into()).collect::<Result<Vec<_>, _>>():
\* converts front to back and stops at the first that does not convert
Creators_collect(creators) ==
    IF creators = <<>> THEN Ok(<<>>)
    ELSE LET first == Creator_try_from(Head(creators))
         IN  IF first.kind # "Ok" THEN first
             ELSE LET rest == Creators_collect(Tail(creators))
                  IN  IF rest.kind # "Ok" THEN rest
                      ELSE Ok(<<first.val>> \o rest.val)

\* TryFrom<ElixirMetadata> for MetadataArgs
MetadataArgs_try_from(metadata) ==
    LET token_program_version == TokenProgramVersion_match(metadata.token_program_version)
        token_standard ==
            IF metadata.token_standard.some
            THEN LET ts == TokenStandard_match(metadata.token_standard.v)
                 IN  IF ts.kind # "Ok" THEN ts ELSE Ok(Some(ts.val))
            ELSE Ok(None)
        collection ==
            IF metadata.collection.some
            THEN LET c == Collection_try_from(metadata.collection.v)
                 IN  IF c.kind # "Ok" THEN c ELSE Ok(Some(c.val))
            ELSE Ok(None)
        uses ==
            IF metadata.uses.some
            THEN LET u == Uses_try_from(metadata.uses.v)
                 IN  IF u.kind # "Ok" THEN u ELSE Ok(Some(u.val))
            ELSE Ok(None)
        creators == Creators_collect(metadata.creators)
    IN  IF token_program_version.kind # "Ok" THEN token_program_version
        ELSE IF token_standard.kind # "Ok" THEN token_standard
        ELSE IF collection.kind # "Ok" THEN collection
        ELSE IF uses.kind # "Ok" THEN uses
        ELSE IF creators.kind # "Ok" THEN creators
        ELSE Ok([name |-> metadata.name,
                 symbol |-> metadata.symbol,
                 uri |-> metadata.uri,
                 seller_fee_basis_points |-> metadata.seller_fee_basis_points,
                 primary_sale_happened |-> metadata.primary_sale_happened,
                 is_mutable |-> metadata.is_mutable,
                 edition_nonce |-> metadata.edition_nonce,
                 token_standard |-> token_standard.val,
                 collection |-> collection.val,
                 uses |-> uses.val,
                 token_program_version |-> token_program_version.val,
                 creators |-> creators.val])

-----------------------------------------------------------------------------
(* Borsh layout of the ledger program's argument types *)

BoolByte(b) == IF b THEN 1 ELSE 0

BorshString(str) == LE(Len(str), 4) \o str

TokenStandardIndex(v) ==
    CASE v = "NonFungible" -> 0
      [] v = "FungibleAsset" -> 1
      [] v = "Fungible" -> 2
      [] v = "NonFungibleEdition" -> 3

UseMethodIndex(v) ==
    CASE v = "Burn" -> 0
      [] v = "Multiple" -> 1
      [] v = "Single" -> 2

TokenProgramVersionIndex(v) ==
    CASE v = "Original" -> 0
      [] v = "Token2022" -> 1

BorshCreator(c) == c.address \o <<BoolByte(c.verified), c.share>>

BorshCreators(creators) ==
    LE(Len(creators), 4) \o Concat([i \in 1..Len(creators) |-> BorshCreator(creators[i])])

BorshMetadataArgs(m) ==
    BorshString(m.name) \o BorshString(m.symbol) \o BorshString(m.uri)
    \o LE(m.seller_fee_basis_points, 2)
    \o <<BoolByte(m.primary_sale_happened), BoolByte(m.is_mutable)>>
    \o (IF m.edition_nonce.some THEN <<1, m.edition_nonce.v>> ELSE <<0>>)
    \o (IF m.token_standard.some
        THEN <<1, TokenStandardIndex(m.token_standard.v)>> ELSE <<0>>)
    \o (IF m.collection.some
        THEN <<1, BoolByte(m.collection.v.verified)>> \o m.collection.v.key
        ELSE <<0>>)
    \o (IF m.uses.some
        THEN <<1, UseMethodIndex(m.uses.v.use_method)>>
             \o LE(m.uses.v.remaining, 8) \o LE(m.uses.v.total, 8)
        ELSE <<0>>)
    \o <<TokenProgramVersionIndex(m.token_program_version)>>
    \o BorshCreators(m.creators)

-----------------------------------------------------------------------------
(* instructions.rs: account metas, instructions, messages *)

\* AccountMeta::new / AccountMeta::new_readonly
AccountMeta(pubkey, is_signer, is_writable) ==
    [pubkey |-> pubkey, is_signer |-> is_signer, is_writable |-> is_writable]

Instruction(program_id, accounts, data) ==
    [program_id |-> program_id, accounts |-> accounts, data |-> data]

\* Rent::default().minimum_balance(data_len)
minimum_balance(data_len) ==
    ((ACCOUNT_STORAGE_OVERHEAD + data_len) * LAMPORTS_PER_BYTE_YEAR) * EXEMPTION_THRESHOLD

\* system_instruction::create_account(from, to, lamports, space, owner):
\* both the funding account and the new account sign and are writable
create_account(from, to, lamports, space, owner) ==
    Instruction(SYSTEM_PROGRAM_ID,
                <<AccountMeta(from, TRUE, TRUE), AccountMeta(to, TRUE, TRUE)>>,
                LE(0, 4) \o LE(lamports, 8) \o LE(space, 8) \o owner)

\* lexicographic order of two byte sequences of the same length
LexLess(a, b) ==
    \E i \in 1..Len(a) :
        /\ a[i] < b[i]
        /\ \A j \in 1..(i - 1) : a[j] = b[j]

RECURSIVE SortKeys(_)
SortKeys(S) ==
    IF S = {} THEN <<>>
    ELSE LET least == CHOOSE k \in S : \A o \in S : o = k \/ LexLess(k, o)
         IN  <<least>> \o SortKeys(S \ {least})

IndexOf(seq, x) == CHOOSE i \in 1..Len(seq) : seq[i] = x

\* Message::new(&instructions, Some(&payer)): every key once, the flags of a
\* key being the union of its flags over all its uses; the payer first, then
\* writable signers, readonly signers, writable non-signers, readonly non-signers
Message_new(instructions, payer) ==
    LET metas == UNION {{instructions[i].accounts[j] :
                            j \in 1..Len(instructions[i].accounts)} :
                        i \in 1..Len(instructions)}
        programs == {instructions[i].program_id : i \in 1..Len(instructions)}
        keys == {payer} \cup programs \cup {m.pubkey : m \in metas}
        signer(k) == k = payer \/ \E m \in metas : m.pubkey = k /\ m.is_signer
        writable(k) == k = payer \/ \E m \in metas : m.pubkey = k /\ m.is_writable
        ws == {k \in keys : signer(k) /\ writable(k)} \ {payer}
        rs == {k \in keys : signer(k) /\ ~writable(k)}
        wn == {k \in keys : ~signer(k) /\ writable(k)}
        rn == {k \in keys : ~signer(k) /\ ~writable(k)}
        account_keys == <<payer>> \o SortKeys(ws) \o SortKeys(rs)
                        \o SortKeys(wn) \o SortKeys(rn)
        compile(ix) ==
            [program_id_index |-> IndexOf(account_keys, ix.program_id),
             accounts |-> [j \in 1..Len(ix.accounts) |->
                              IndexOf(account_keys, ix.accounts[j].pubkey)],
             data |-> ix.data]
    IN  [header |-> [num_required_signatures |-> 1 + Cardinality(ws) + Cardinality(rs),
                     num_readonly_signed_accounts |-> Cardinality(rs),
                     num_readonly_unsigned_accounts |-> Cardinality(rn)],
         account_keys |-> account_keys,
         recent_blockhash |-> Bytes(HASH_BYTES, 0),
         instructions |-> [i \in 1..Len(instructions) |-> compile(instructions[i])]]

Signature_default == Bytes(SIGNATURE_BYTES, 0)

\* Transaction::new_unsigned(message): one default signature per required signer
Transaction_new_unsigned(message) ==
    [signatures |-> [i \in 1..message.header.num_required_signatures |->
                        Signature_default],
     message |-> message]

-----------------------------------------------------------------------------
(* instructions.rs: the three builders *)

\* (1 << shift) * 32 on usize, for a shift below the word width: the product
\* wraps to 0 once the set bit leaves the word
ShlTimes32(shift) ==
    IF shift + 5 >= USIZE_BITS THEN 0 ELSE Pow2(shift + 5)

\* get_merkle_tree_size(max_depth, max_buffer_size).  With overflow checks
\* (debug profile) an overflowing subtraction, shift or multiplication panics;
\* without them (release profile) the subtraction wraps, the shift amount is
\* taken modulo the word width and the multiplication wraps.
get_merkle_tree_size(max_depth, max_buffer_size, checks) ==
    LET header_size == HEADER_SIZE
        buffer_size == max_buffer_size * 32
    IN  IF checks
        THEN IF max_depth = 0
             THEN Panic("attempt to subtract with overflow")
             ELSE IF max_depth - 1 >= USIZE_BITS
             THEN Panic("attempt to shift left with overflow")
             ELSE IF (max_depth - 1) + 5 >= USIZE_BITS
             THEN Panic("attempt to multiply with overflow")
             ELSE IF max_depth + 1 >= USIZE_BITS
             THEN Panic("attempt to shift left with overflow")
             ELSE IF (max_depth + 1) + 5 >= USIZE_BITS
             THEN Panic("attempt to multiply with overflow")
             ELSE Ok(header_size + ShlTimes32(max_depth - 1)
                     + ShlTimes32(max_depth + 1) + buffer_size)
        ELSE LET canopy_size == ShlTimes32((max_depth - 1) % USIZE_BITS)
                 tree_size == ShlTimes32((max_depth + 1) % USIZE_BITS)
             IN  Ok(header_size + canopy_size + tree_size + buffer_size)

\* CreateTreeConfigBuilder...instruction(): accounts in the order of the ledger
\* program's interface; data = discriminator, max_depth, max_buffer_size and
\* the optional public flag (Option<bool>: 0, or 1 followed by the value)
CreateTreeConfigBuilder_instruction(b) ==
    Instruction(BUBBLEGUM_ID,
                <<AccountMeta(b.tree_config, FALSE, TRUE),
                  AccountMeta(b.merkle_tree, FALSE, TRUE),
                  AccountMeta(b.payer, TRUE, TRUE),
                  AccountMeta(b.tree_creator, TRUE, FALSE),
                  AccountMeta(SPL_NOOP_ID, FALSE, FALSE),
                  AccountMeta(SPL_ACCOUNT_COMPRESSION_ID, FALSE, FALSE),
                  AccountMeta(SYSTEM_PROGRAM_ID, FALSE, FALSE)>>,
                CREATE_TREE_CONFIG_DISCRIMINATOR
                \o LE(b.max_depth, 4) \o LE(b.max_buffer_size, 4)
                \o (IF b.public.some THEN <<1, BoolByte(b.public.v)>> ELSE <<0>>))

\* (mutation) an absent public flag is sent as an explicit false
builder_public_defaulted(public) ==
    IF public.some THEN Some(public.v) ELSE Some(FALSE)

\* if let Some(public_value) = public { builder.public(public_value); }
builder_public(public) ==
    IF public.some THEN Some(public.v) ELSE None

\* (mutation) payer and tree_creator change places in the ledger instruction
create_tree_config_instructions_swapped(tree_config, merkle_tree, payer, tree_creator, max_depth, max_buffer_size, public, merkle_tree_space) ==
    <<create_account(payer, tree_config, minimum_balance(TREE_CONFIG_SPACE),
                     TREE_CONFIG_SPACE, BUBBLEGUM_ID),
      create_account(payer, merkle_tree, minimum_balance(merkle_tree_space),
                     merkle_tree_space, SPL_ACCOUNT_COMPRESSION_ID),
      CreateTreeConfigBuilder_instruction(
          [tree_config |-> tree_config, merkle_tree |-> merkle_tree,
           payer |-> tree_creator, tree_creator |-> payer,
           max_depth |-> max_depth, max_buffer_size |-> max_buffer_size,
           public |-> IF public.some THEN Some(public.v) ELSE None])>>

\* the instruction list of create_tree_config: the two create_account
\* instructions of the vec![..], then the pushed builder instruction
create_tree_config_instructions(tree_config, merkle_tree, payer, tree_creator, max_depth, max_buffer_size, public, merkle_tree_space) ==
    <<create_account(payer, tree_config, minimum_balance(TREE_CONFIG_SPACE),
                     TREE_CONFIG_SPACE, BUBBLEGUM_ID),
      create_account(payer, merkle_tree, minimum_balance(merkle_tree_space),
                     merkle_tree_space, SPL_ACCOUNT_COMPRESSION_ID),
      CreateTreeConfigBuilder_instruction(
          [tree_config |-> tree_config, merkle_tree |-> merkle_tree,
           payer |-> payer, tree_creator |-> tree_creator,
           max_depth |-> max_depth, max_buffer_size |-> max_buffer_size,
           public |-> builder_public(public)])>>

\* instructions::create_tree_config.  Of the returned bytes the model keeps the
\* transaction they encode (bincode::serialize of a Transaction is one-to-one).
create_tree_config(tree_config, merkle_tree, payer, tree_creator, max_depth, max_buffer_size, public, checks) ==
    LET merkle_tree_space == get_merkle_tree_size(max_depth, max_buffer_size, checks)
    IN  IF merkle_tree_space.kind # "Ok" THEN merkle_tree_space
        ELSE Ok(Transaction_new_unsigned(Message_new(
                    create_tree_config_instructions(
                        tree_config, merkle_tree, payer, tree_creator,
                        max_depth, max_buffer_size, public, merkle_tree_space.val),
                    payer)))

\* MintV1Builder...instruction(): data = discriminator and the MetadataArgs
MintV1Builder_instruction(b) ==
    Instruction(BUBBLEGUM_ID,
                <<AccountMeta(b.tree_config, FALSE, TRUE),
                  AccountMeta(b.leaf_owner, FALSE, FALSE),
                  AccountMeta(b.leaf_delegate, FALSE, FALSE),
                  AccountMeta(b.merkle_tree, FALSE, TRUE),
                  AccountMeta(b.payer, TRUE, FALSE),
                  AccountMeta(b.tree_creator_or_delegate, TRUE, FALSE),
                  AccountMeta(SPL_NOOP_ID, FALSE, FALSE),
                  AccountMeta(SPL_ACCOUNT_COMPRESSION_ID, FALSE, FALSE),
                  AccountMeta(SYSTEM_PROGRAM_ID, FALSE, FALSE)>>,
                MINT_V1_DISCRIMINATOR \o BorshMetadataArgs(b.metadata))

\* the instruction slice handed to Message::new by mint_v1
mint_v1_instructions(tree_config, leaf_owner, leaf_delegate, merkle_tree, payer, tree_creator_or_delegate, metadata) ==
    <<MintV1Builder_instruction(
          [tree_config |-> tree_config, leaf_owner |-> leaf_owner,
           leaf_delegate |-> leaf_delegate, merkle_tree |-> merkle_tree,
           payer |-> payer, tree_creator_or_delegate |-> tree_creator_or_delegate,
           metadata |-> metadata])>>

\* (mutation) the leaf owner pays the fee of a mint
mint_v1_owner_pays(tree_config, leaf_owner, leaf_delegate, merkle_tree, payer, tree_creator_or_delegate, metadata) ==
    Ok(Transaction_new_unsigned(Message_new(
           mint_v1_instructions(tree_config, leaf_owner, leaf_delegate, merkle_tree,
                                payer, tree_creator_or_delegate, metadata),
           leaf_owner)))

\* instructions::mint_v1: the payer is the fee payer
mint_v1(tree_config, leaf_owner, leaf_delegate, merkle_tree, payer, tree_creator_or_delegate, metadata) ==
    Ok(Transaction_new_unsigned(Message_new(
           mint_v1_instructions(tree_config, leaf_owner, leaf_delegate, merkle_tree,
                                payer, tree_creator_or_delegate, metadata),
           payer)))

\* TransferBuilder...instruction(): leaf_owner and leaf_delegate carry the
\* signer flag given to the builder; data = discriminator, root, data_hash,
\* creator_hash, nonce (u64) and index (u32)
TransferBuilder_instruction(b) ==
    Instruction(BUBBLEGUM_ID,
                <<AccountMeta(b.tree_config, FALSE, FALSE),
                  AccountMeta(b.leaf_owner[1], b.leaf_owner[2], FALSE),
                  AccountMeta(b.leaf_delegate[1], b.leaf_delegate[2], FALSE),
                  AccountMeta(b.new_leaf_owner, FALSE, FALSE),
                  AccountMeta(b.merkle_tree, FALSE, TRUE),
                  AccountMeta(SPL_NOOP_ID, FALSE, FALSE),
                  AccountMeta(SPL_ACCOUNT_COMPRESSION_ID, FALSE, FALSE),
                  AccountMeta(SYSTEM_PROGRAM_ID, FALSE, FALSE)>>,
                TRANSFER_DISCRIMINATOR
                \o b.root \o b.data_hash \o b.creator_hash
                \o LE(b.nonce, 8) \o LE(b.index, 4))

\* (mutation) the leaf delegate is marked as a signer too
transfer_instructions_delegate_signs(tree_config, leaf_owner, leaf_delegate, new_leaf_owner, merkle_tree, root, data_hash, creator_hash, nonce, index) ==
    <<TransferBuilder_instruction(
          [tree_config |-> tree_config,
           leaf_owner |-> <<leaf_owner, TRUE>>,
           leaf_delegate |-> <<leaf_delegate, TRUE>>,
           new_leaf_owner |-> new_leaf_owner, merkle_tree |-> merkle_tree,
           root |-> root, data_hash |-> data_hash, creator_hash |-> creator_hash,
           nonce |-> nonce, index |-> index])>>

\* (mutation) the two leaf digests change places
transfer_instructions_digests_swapped(tree_config, leaf_owner, leaf_delegate, new_leaf_owner, merkle_tree, root, data_hash, creator_hash, nonce, index) ==
    <<TransferBuilder_instruction(
          [tree_config |-> tree_config,
           leaf_owner |-> <<leaf_owner, TRUE>>,
           leaf_delegate |-> <<leaf_delegate, FALSE>>,
           new_leaf_owner |-> new_leaf_owner, merkle_tree |-> merkle_tree,
           root |-> root, data_hash |-> creator_hash, creator_hash |-> data_hash,
           nonce |-> nonce, index |-> index])>>

\* the instruction slice handed to Message::new by transfer
transfer_instructions(tree_config, leaf_owner, leaf_delegate, new_leaf_owner, merkle_tree, root, data_hash, creator_hash, nonce, index) ==
    <<TransferBuilder_instruction(
          [tree_config |-> tree_config,
           leaf_owner |-> <<leaf_owner, TRUE>>,
           leaf_delegate |-> <<leaf_delegate, FALSE>>,
           new_leaf_owner |-> new_leaf_owner, merkle_tree |-> merkle_tree,
           root |-> root, data_hash |-> data_hash, creator_hash |-> creator_hash,
           nonce |-> nonce, index |-> index])>>

\* instructions::transfer: the leaf owner is the fee payer
transfer(tree_config, leaf_owner, leaf_delegate, new_leaf_owner, merkle_tree, root, data_hash, creator_hash, nonce, index) ==
    Ok(Transaction_new_unsigned(Message_new(
           transfer_instructions(tree_config, leaf_owner, leaf_delegate,
                                 new_leaf_owner, merkle_tree, root, data_hash,
                                 creator_hash, nonce, index),
           leaf_owner)))

-----------------------------------------------------------------------------
(* utils.rs: hashing and asset-id derivation *)

\* keccak::hashv and the sha256 of the address derivation, as opaque digests
\* of their preimage
Keccak(preimage) == [keccak |-> preimage]
Sha256(preimage) == [sha256 |-> preimage]

\* mpl_bubblegum::hash::hash_metadata: keccak of the serialized metadata, then
\* keccak of that hash followed by the seller fee
bubblegum_hash_metadata(metadata) ==
    Keccak(<<Keccak(BorshMetadataArgs(metadata)),
             LE(metadata.seller_fee_basis_points, 2)>>)

\* mpl_bubblegum::hash::hash_creators: keccak over address, verified, share of
\* each creator in sequence order
bubblegum_hash_creators(creators) ==
    Keccak(Concat([i \in 1..Len(creators) |-> BorshCreator(creators[i])]))

\* utils::hash_metadata
hash_metadata(metadata) == Ok(bubblegum_hash_metadata(metadata))

\* utils::hash_creators
hash_creators(creators) ==
    LET converted == Creators_collect(creators)
    IN  CASE converted.kind = "Ok" -> Ok(bubblegum_hash_creators(converted.val))
          [] converted.kind = "Err" ->
                Err(<<"Conversion error: Failed to convert creators", converted.msg>>)
          [] OTHER -> converted

ASSET_PREFIX == <<97, 115, 115, 101, 116>>

\* Pubkey::create_program_address with the bump appended to the seeds
create_program_address(seeds, bump, program_id) ==
    Sha256(Concat(seeds) \o <<bump>> \o program_id)

\* the loop of Pubkey::try_find_program_address: `for _ in 0..u8::MAX`, the
\* bump seed starting at u8::MAX and decremented after each on-curve candidate;
\* the first candidate off the curve is returned, so of the bumps the loop
\* reaches the largest whose candidate is off the curve
try_find_program_address(seeds, program_id, on_curve) ==
    LET reached == {U8_MAX - i : i \in 0..(U8_MAX - 1)}
        viable == {bump_seed \in reached : bump_seed \notin on_curve}
        first == CHOOSE bump_seed \in viable : \A o \in viable : o <= bump_seed
    IN  IF viable = {} THEN None
        ELSE Some(<<create_program_address(seeds, first, program_id), first>>)

\* Pubkey::find_program_address: panics when try_find_program_address is None
find_program_address(seeds, program_id, on_curve) ==
    LET found == try_find_program_address(seeds, program_id, on_curve)
    IN  IF found.some THEN Ok(found.v)
        ELSE Panic("Unable to find a viable program address bump seed")

\* mpl_bubblegum::utils::get_asset_id(&tree, nonce)
bubblegum_get_asset_id(tree, nonce, on_curve) ==
    LET found == find_program_address(<<ASSET_PREFIX, tree, LE(nonce, 8)>>,
                                      BUBBLEGUM_ID, on_curve)
    IN  IF found.kind # "Ok" THEN found ELSE Ok(found.val[1])

\* utils::get_asset_id: Ok(bubblegum_get_asset_id(&tree, nonce))
get_asset_id(tree, nonce, on_curve) ==
    bubblegum_get_asset_id(tree, nonce, on_curve)

-----------------------------------------------------------------------------
(* lib.rs: the exported NIFs *)

\* what a NIF gives back: Ok((atom::ok(), value)), Ok((atom::error(), message)),
\* an Err(Error::Term(message)) propagated by `?`, or a panic
ReturnedOk(v) == [ret |-> "tuple", tag |-> "ok", val |-> v]
ReturnedError(m) == [ret |-> "tuple", tag |-> "error", msg |-> m]
ReturnedErr(m) == [ret |-> "Err", msg |-> m]
Panicked(m) == [ret |-> "panic", msg |-> m]

\* the first argument conversion, in evaluation order, that did not succeed
FirstFailure(rs) ==
    LET failed == {i \in 1..Len(rs) : rs[i].kind # "Ok"}
    IN  IF failed = {} THEN Ok(<<>>)
        ELSE rs[CHOOSE i \in failed : \A j \in failed : i <= j]

Call(callee, with) == [callee |-> callee, with |-> with]

\* match <builder or hasher result> { Ok(v) => (ok, v), Err(e) => (error, e.to_string()) }
Outcome(r) ==
    CASE r.kind = "Ok" -> ReturnedOk(r.val)
      [] r.kind = "Err" -> ReturnedError(r.msg)
      [] OTHER -> Panicked(r.msg)

\* #[rustler::nif] fn create_tree_config
nif_create_tree_config(a, checks) ==
    LET conv == <<Pubkey_from(a.tree_config), Pubkey_from(a.merkle_tree),
                  Pubkey_from(a.payer), Pubkey_from(a.tree_creator)>>
        failure == FirstFailure(conv)
        size == get_merkle_tree_size(a.max_depth, a.max_buffer_size, checks)
    IN  IF failure.kind # "Ok"
        THEN [handed |-> <<>>, built |-> <<>>, result |-> Panicked(failure.msg)]
        ELSE [handed |-> <<Call("instructions::create_tree_config", a)>>,
              built |-> IF size.kind = "Ok"
                        THEN create_tree_config_instructions(
                                 a.tree_config, a.merkle_tree, a.payer, a.tree_creator,
                                 a.max_depth, a.max_buffer_size, a.public, size.val)
                        ELSE <<>>,
              result |-> Outcome(create_tree_config(
                                 a.tree_config, a.merkle_tree, a.payer, a.tree_creator,
                                 a.max_depth, a.max_buffer_size, a.public, checks))]

\* #[rustler::nif] fn mint_v1: the six addresses convert first, then
\* metadata.try_into()? returns its Err from the NIF
nif_mint_v1(a) ==
    LET conv == <<Pubkey_from(a.tree_config), Pubkey_from(a.leaf_owner),
                  Pubkey_from(a.leaf_delegate), Pubkey_from(a.merkle_tree),
                  Pubkey_from(a.payer), Pubkey_from(a.tree_creator_or_delegate)>>
        failure == FirstFailure(conv)
        metadata == MetadataArgs_try_from(a.metadata)
    IN  IF failure.kind # "Ok"
        THEN [handed |-> <<>>, built |-> <<>>, result |-> Panicked(failure.msg)]
        ELSE IF metadata.kind = "Err"
        THEN [handed |-> <<>>, built |-> <<>>, result |-> ReturnedErr(metadata.msg)]
        ELSE IF metadata.kind = "Panic"
        THEN [handed |-> <<>>, built |-> <<>>, result |-> Panicked(metadata.msg)]
        ELSE [handed |-> <<Call("instructions::mint_v1",
                                [a EXCEPT !.metadata = metadata.val])>>,
              built |-> mint_v1_instructions(
                            a.tree_config, a.leaf_owner, a.leaf_delegate, a.merkle_tree,
                            a.payer, a.tree_creator_or_delegate, metadata.val),
              result |-> Outcome(mint_v1(
                            a.tree_config, a.leaf_owner, a.leaf_delegate, a.merkle_tree,
                            a.payer, a.tree_creator_or_delegate, metadata.val))]

\* root.try_into().map_err(|_| Error::Term(Box::new("<field> must be 32 bytes")))
digest_try_into(bytes, message) ==
    IF Len(bytes) = HASH_BYTES THEN Ok(bytes) ELSE Err(message)

\* #[rustler::nif] fn transfer: the three digests are checked first, each
\* returning its Err with `?`; then the five addresses convert
nif_transfer(a) ==
    LET digests == <<digest_try_into(a.root, "root must be 32 bytes"),
                     digest_try_into(a.data_hash, "data_hash must be 32 bytes"),
                     digest_try_into(a.creator_hash, "creator_hash must be 32 bytes")>>
        rejected == FirstFailure(digests)
        conv == <<Pubkey_from(a.tree_config), Pubkey_from(a.leaf_owner),
                  Pubkey_from(a.leaf_delegate), Pubkey_from(a.new_leaf_owner),
                  Pubkey_from(a.merkle_tree)>>
        failure == FirstFailure(conv)
    IN  IF rejected.kind # "Ok"
        THEN [handed |-> <<>>, built |-> <<>>, result |-> ReturnedErr(rejected.msg)]
        ELSE IF failure.kind # "Ok"
        THEN [handed |-> <<>>, built |-> <<>>, result |-> Panicked(failure.msg)]
        ELSE [handed |-> <<Call("instructions::transfer", a)>>,
              built |-> transfer_instructions(
                            a.tree_config, a.leaf_owner, a.leaf_delegate,
                            a.new_leaf_owner, a.merkle_tree, a.root, a.data_hash,
                            a.creator_hash, a.nonce, a.index),
              result |-> Outcome(transfer(
                            a.tree_config, a.leaf_owner, a.leaf_delegate,
                            a.new_leaf_owner, a.merkle_tree, a.root, a.data_hash,
                            a.creator_hash, a.nonce, a.index))]

\* (atom::ok(), ElixirHash::from(hash))
HashOutcome(r) ==
    IF r.kind = "Ok" THEN ReturnedOk(ElixirHash_from(r.val)) ELSE Outcome(r)

\* #[rustler::nif] fn hash_metadata
nif_hash_metadata(a) ==
    LET metadata == MetadataArgs_try_from(a.metadata)
    IN  CASE metadata.kind = "Err" ->
                [handed |-> <<>>, built |-> <<>>, result |-> ReturnedErr(metadata.msg)]
          [] metadata.kind = "Panic" ->
                [handed |-> <<>>, built |-> <<>>, result |-> Panicked(metadata.msg)]
          [] OTHER ->
                [handed |-> <<Call("utils::hash_metadata", [metadata |-> metadata.val]),
                              Call("bubblegum_hash_metadata", [metadata |-> metadata.val])>>,
                 built |-> <<>>,
                 result |-> HashOutcome(hash_metadata(metadata.val))]

\* #[rustler::nif] fn hash_creators: utils::hash_creators converts the
\* creators and hands the converted list to the library hasher
nif_hash_creators(a) ==
    LET converted == Creators_collect(a.creators)
    IN  [handed |-> <<Call("utils::hash_creators", a)>>
                    \o (IF converted.kind = "Ok"
                        THEN <<Call("bubblegum_hash_creators",
                                    [creators |-> converted.val])>>
                        ELSE <<>>),
         built |-> <<>>,
         result |-> HashOutcome(hash_creators(a.creators))]

\* #[rustler::nif] fn get_asset_id
nif_get_asset_id(a) ==
    LET tree == Pubkey_from(a.tree)
        r == get_asset_id(tree.val, a.nonce, a.on_curve)
    IN  IF tree.kind # "Ok"
        THEN [handed |-> <<>>, built |-> <<>>, result |-> Panicked(tree.msg)]
        ELSE [handed |-> <<Call("utils::get_asset_id", a)>>,
              built |-> <<>>,
              result |-> IF r.kind = "Ok"
                         THEN ReturnedOk(ElixirPubkey_from(r.val))
                         ELSE Outcome(r)]

-----------------------------------------------------------------------------
(* lib.rs: sign_and_submit_transaction *)

\* bincode::serialize(&transaction).  The bytes are kept as the transaction
\* they encode under a format tag, not byte by byte; bytes that end before the
\* transaction is complete are such a sequence cut short.
bincode_serialize(transaction) == <<"bincode", transaction>>

\* bincode::deserialize(transaction_bytes)
bincode_deserialize(bytes) ==
    IF Len(bytes) = 2 THEN Ok(bytes[2])
    ELSE Err("io error: unexpected end of file")

\* public-key halves that decompress to no point of the curve
NOT_A_POINT == {Bytes(PUBKEY_BYTES, 250)}

\* Keypair::from_bytes(secret_key.as_slice()): 64 bytes, the secret then the
\* public key, which has to be a point of the curve
Keypair_from_bytes(bytes) ==
    IF Len(bytes) # KEYPAIR_BYTES
    THEN Err("signature error: Keypair must be 64 bytes in length")
    ELSE IF SubSeq(bytes, PUBKEY_BYTES + 1, KEYPAIR_BYTES) \in NOT_A_POINT
    THEN Err("signature error: Cannot decompress Edwards point")
    ELSE Ok([secret |-> SubSeq(bytes, 1, PUBKEY_BYTES),
             pubkey |-> SubSeq(bytes, PUBKEY_BYTES + 1, KEYPAIR_BYTES)])

\* for secret_key in secret_keys { ... keypairs.push(keypair) }: the first key
\* that does not parse ends the loop with its error
parse_keypairs(secret_keys) ==
    LET parsed == [i \in 1..Len(secret_keys) |-> Keypair_from_bytes(secret_keys[i])]
        failure == FirstFailure(parsed)
    IN  IF failure.kind # "Ok" THEN failure
        ELSE Ok([i \in 1..Len(secret_keys) |-> parsed[i].val])

\* keypair.sign_message(message_data): a signature is determined by the key
\* and the signed message, of which the model keeps the blockhash
sign_message(keypair, message) == keypair.pubkey \o message.recent_blockhash

\* Transaction::is_signed
is_signed(transaction) ==
    \A i \in 1..Len(transaction.signatures) :
        transaction.signatures[i] # Signature_default

\* position of a key among the required signers (0-based), if it is one
signing_position(message, pubkey) ==
    LET at == {i \in 1..message.header.num_required_signatures :
                   message.account_keys[i] = pubkey}
    IN  IF at = {} THEN None
        ELSE Some((CHOOSE i \in at : \A j \in at : i <= j) - 1)

\* transaction.sign(&keypair_refs, recent_blockhash): try_sign, and a panic on
\* its error.  Every keypair has to be a required signer; the blockhash is
\* replaced (clearing the signatures when it changed); each keypair's
\* signature goes to its position; every signature has to be set in the end.
Transaction_sign(transaction, keypairs, recent_blockhash) ==
    LET message == transaction.message
        positions == [i \in 1..Len(keypairs) |->
                         signing_position(message, keypairs[i].pubkey)]
        fresh == [message EXCEPT !.recent_blockhash = recent_blockhash]
        cleared == IF recent_blockhash # message.recent_blockhash
                   THEN [i \in 1..Len(transaction.signatures) |-> Signature_default]
                   ELSE transaction.signatures
        \* the last keypair written to a position is the one whose signature stays
        signer_at(p) == CHOOSE i \in 1..Len(keypairs) :
                            /\ positions[i].v = p - 1
                            /\ \A j \in 1..Len(keypairs) : positions[j].v = p - 1 => j <= i
        signed == [p \in 1..Len(cleared) |->
                      IF \E i \in 1..Len(keypairs) : positions[i].v = p - 1
                      THEN sign_message(keypairs[signer_at(p)], fresh)
                      ELSE cleared[p]]
        done == [signatures |-> signed, message |-> fresh]
    IN  IF Len(message.account_keys) < message.header.num_required_signatures
        THEN Panic("Transaction::sign failed with error InvalidAccountIndex")
        ELSE IF \E i \in 1..Len(keypairs) : ~positions[i].some
        THEN Panic("Transaction::sign failed with error KeypairPubkeyMismatch")
        ELSE IF \E i \in 1..Len(keypairs) : positions[i].v >= Len(cleared)
        THEN Panic("index out of bounds")
        ELSE IF ~is_signed(done)
        THEN Panic("Transaction::sign failed with error NotEnoughSigners")
        ELSE Ok(done)

\* signature.to_string()
Signature_to_string(signature) == <<"base58", signature>>

\* a request to the RPC node at http://127.0.0.1:8899 and the node's answer
Request(method, params) ==
    [method |-> method, params |-> params, response |-> [kind |-> "pending"]]
Answered(request, response) == [request EXCEPT !.response = response]

\* what a step of sign_and_submit_transaction leaves: where the call stands,
\* what it returned if it did, and the requests it sent so far
Step(at, r, requests) == [pc |-> at, result |-> r, rpc |-> requests]

\* #[rustler::nif] fn sign_and_submit_transaction, up to the request for the
\* latest blockhash: the runtime, the transaction, the keypairs
nif_sign_and_submit_transaction(a, runtime) ==
    LET transaction == bincode_deserialize(a.transaction_binary)
        keypairs == parse_keypairs(a.secret_keys)
    IN  IF runtime.kind # "Ok"
        THEN Step("returned", ReturnedErr(<<"Failed to create runtime", runtime.msg>>), <<>>)
        ELSE IF transaction.kind # "Ok"
        THEN Step("returned",
                  ReturnedError(<<"Failed to deserialize transaction", transaction.msg>>),
                  <<>>)
        ELSE IF keypairs.kind # "Ok"
        THEN Step("returned",
                  ReturnedError(<<"Failed to create keypair", keypairs.msg>>), <<>>)
        ELSE Step("blockhash", [ret |-> "none"],
                  <<Request("getLatestBlockhash", <<>>)>>)

\* ... from the node's answer to get_latest_blockhash to the request that
\* submits: the error of the fetch is returned, signing panics on its error,
\* transaction.signatures[0] panics when there is no signature
sign_and_submit_transaction_signing(a, requests, response) ==
    LET answered == <<Answered(requests[1], response)>>
        signed == Transaction_sign(bincode_deserialize(a.transaction_binary).val,
                                   parse_keypairs(a.secret_keys).val, response.val)
    IN  IF response.kind # "Ok"
        THEN Step("returned",
                  ReturnedError(<<"Failed to get blockhash", response.msg>>), answered)
        ELSE IF signed.kind # "Ok"
        THEN Step("returned", Panicked(signed.msg), answered)
        ELSE IF signed.val.signatures = <<>>
        THEN Step("returned", Panicked("index out of bounds"), answered)
        ELSE Step("submit", [ret |-> "none"],
                  answered \o <<Request("sendTransaction", signed.val)>>)

\* ... from the node's answer to send_and_confirm_transaction to the return
sign_and_submit_transaction_submitted(requests, response) ==
    LET answered == <<requests[1], Answered(requests[2], response)>>
    IN  IF response.kind # "Ok"
        THEN Step("returned",
                  ReturnedError(<<"Failed to submit transaction", response.msg>>),
                  answered)
        ELSE Step("returned", ReturnedOk(Signature_to_string(response.val)), answered)

-----------------------------------------------------------------------------
(* The arguments a caller may supply *)

\* well-formed addresses
ADDRS == {Bytes(PUBKEY_BYTES, k) : k \in 1..4}
\* byte sequences of a wrong length: empty, one short, one long
MALFORMED == {<<>>, Bytes(PUBKEY_BYTES - 1, 9), Bytes(PUBKEY_BYTES + 1, 9)}
\* well-formed digests
DIGESTS == {Bytes(HASH_BYTES, k) : k \in 11..12}

DEPTHS == {0, 3, 5, 64}
BUFFER_SIZES == {8, 64}
NONCES == {5, 6, 258}
INDEXES == {5, 65537}
PUBLIC == {None, Some(TRUE), Some(FALSE)}

\* a record with up to MaxMalformed of the given fields replaced by malformed bytes
Malformations(base, fields) ==
    UNION {{[f \in DOMAIN base |-> IF f \in S THEN m[f] ELSE base[f]] :
                m \in [S -> MALFORMED]} :
           S \in {T \in SUBSET fields : Cardinality(T) \in 1..MaxMalformed}}

CreateTreeFields == {"tree_config", "merkle_tree", "payer", "tree_creator"}
CreateTreeBase ==
    [tree_config |-> Bytes(PUBKEY_BYTES, 1), merkle_tree |-> Bytes(PUBKEY_BYTES, 2),
     payer |-> Bytes(PUBKEY_BYTES, 3), tree_creator |-> Bytes(PUBKEY_BYTES, 4),
     max_depth |-> 3, max_buffer_size |-> 8, public |-> None]
\* every choice of the four addresses, every choice of the numbers and the
\* flag, and the malformed variants
CreateTreeInputs ==
    {[CreateTreeBase EXCEPT !.tree_config = k[1], !.merkle_tree = k[2],
                            !.payer = k[3], !.tree_creator = k[4]] :
        k \in ADDRS \X ADDRS \X ADDRS \X ADDRS}
    \cup {[CreateTreeBase EXCEPT !.max_depth = d, !.max_buffer_size = b, !.public = p] :
        d \in DEPTHS, b \in BUFFER_SIZES, p \in PUBLIC}
    \cup Malformations(CreateTreeBase, CreateTreeFields)

TransferAddrs == {Bytes(PUBKEY_BYTES, k) : k \in 1..3}
TransferFields == {"tree_config", "leaf_owner", "leaf_delegate", "new_leaf_owner",
                   "merkle_tree", "root", "data_hash", "creator_hash"}
TransferBase ==
    [tree_config |-> Bytes(PUBKEY_BYTES, 1), leaf_owner |-> Bytes(PUBKEY_BYTES, 2),
     leaf_delegate |-> Bytes(PUBKEY_BYTES, 3), new_leaf_owner |-> Bytes(PUBKEY_BYTES, 4),
     merkle_tree |-> Bytes(PUBKEY_BYTES, 5), root |-> Bytes(HASH_BYTES, 11),
     data_hash |-> Bytes(HASH_BYTES, 12), creator_hash |-> Bytes(HASH_BYTES, 11),
     nonce |-> 5, index |-> 5]
\* every choice of the five addresses, every choice of the digests, nonce and
\* index, and the malformed variants
TransferInputs ==
    {[TransferBase EXCEPT !.tree_config = k[1], !.leaf_owner = k[2],
                          !.leaf_delegate = k[3], !.new_leaf_owner = k[4],
                          !.merkle_tree = k[5]] :
        k \in TransferAddrs \X TransferAddrs \X TransferAddrs \X TransferAddrs
              \X TransferAddrs}
    \cup {[TransferBase EXCEPT !.root = h[1], !.data_hash = h[2], !.creator_hash = h[3],
                               !.nonce = n, !.index = i] :
        h \in DIGESTS \X DIGESTS \X DIGESTS, n \in NONCES, i \in INDEXES}
    \cup Malformations(TransferBase, TransferFields)

\* creators as supplied to hash_creators
CREATORS ==
    {[address |-> a, verified |-> v, share |-> s] :
        a \in {Bytes(PUBKEY_BYTES, 1), Bytes(PUBKEY_BYTES, 2), Bytes(PUBKEY_BYTES - 1, 9)},
        v \in BOOLEAN, s \in {0, 60, 100}}
\* creators as supplied inside metadata
METADATA_CREATORS ==
    {[address |-> Bytes(PUBKEY_BYTES, 1), verified |-> TRUE, share |-> 60],
     [address |-> Bytes(PUBKEY_BYTES, 2), verified |-> FALSE, share |-> 40],
     [address |-> Bytes(PUBKEY_BYTES - 1, 9), verified |-> FALSE, share |-> 100]}

SeqsUpTo(S, n) == UNION {[1..k -> S] : k \in 0..n}

COLLECTIONS ==
    {None,
     Some([verified |-> TRUE, key |-> Bytes(PUBKEY_BYTES, 4)]),
     Some([verified |-> FALSE, key |-> Bytes(PUBKEY_BYTES + 1, 9)])}

MetadataInputs ==
    {[name |-> <<78, 70, 84>>, symbol |-> <<83>>, uri |-> <<117, 58>>,
      seller_fee_basis_points |-> 500,
      primary_sale_happened |-> FALSE, is_mutable |-> TRUE,
      edition_nonce |-> None,
      token_standard |-> ts, collection |-> c, uses |-> u,
      token_program_version |-> tpv, creators |-> cs] :
        ts \in {None} \cup {Some(n) : n \in {0, 1, 2, 3, 4}},
        c \in COLLECTIONS,
        u \in {None} \cup {Some([use_method |-> n, remaining |-> 1, total |-> 2]) :
                              n \in {0, 1, 2, 3}},
        tpv \in {0, 1, 2},
        cs \in SeqsUpTo(METADATA_CREATORS, MaxCreators)}

MetadataBase ==
    [name |-> <<78, 70, 84>>, symbol |-> <<83>>, uri |-> <<117, 58>>,
     seller_fee_basis_points |-> 500,
     primary_sale_happened |-> FALSE, is_mutable |-> TRUE,
     edition_nonce |-> Some(7),
     token_standard |-> Some(0), collection |-> None, uses |-> None,
     token_program_version |-> 0, creators |-> <<>>]

MintFields == {"tree_config", "leaf_owner", "leaf_delegate", "merkle_tree", "payer",
               "tree_creator_or_delegate"}
MintBase ==
    [tree_config |-> Bytes(PUBKEY_BYTES, 1), leaf_owner |-> Bytes(PUBKEY_BYTES, 2),
     leaf_delegate |-> Bytes(PUBKEY_BYTES, 2), merkle_tree |-> Bytes(PUBKEY_BYTES, 3),
     payer |-> Bytes(PUBKEY_BYTES, 4), tree_creator_or_delegate |-> Bytes(PUBKEY_BYTES, 4),
     metadata |-> MetadataBase]
MintInputs ==
    {[MintBase EXCEPT !.metadata = m, !.tree_creator_or_delegate = t] :
        m \in MetadataInputs \cup {MetadataBase},
        t \in {Bytes(PUBKEY_BYTES, 4), Bytes(PUBKEY_BYTES, 2)}}
    \cup Malformations(MintBase, MintFields)

\* which bumps give a candidate that lies on the curve, for the seeds of one call
CURVES == {{}, {U8_MAX}, {U8_MAX, U8_MAX - 1}, {U8_MAX - 1}, 1..U8_MAX, 0..U8_MAX,
           0..(U8_MAX - 1), 2..U8_MAX}

AssetIdInputs ==
    {[tree |-> t, nonce |-> n, on_curve |-> c] :
        t \in ADDRS \cup MALFORMED, n \in NONCES, c \in CURVES}

\* the secret key of the keypair whose public key is 32 bytes of k
SecretKey(k) == Bytes(PUBKEY_BYTES, 100 + k) \o Bytes(PUBKEY_BYTES, k)

\* secret keys: of the leaf owner and the payer of the base inputs, of a key
\* no transaction names, and three that do not parse (empty, one byte short,
\* a public half that is no point)
SECRET_KEYS ==
    {SecretKey(2), SecretKey(3), SecretKey(9), <<>>, Bytes(KEYPAIR_BYTES - 1, 7),
     Bytes(PUBKEY_BYTES, 7) \o Bytes(PUBKEY_BYTES, 250)}

\* every list of up to MaxKeys of them (the empty list included), and the four
\* signers of the tree-creation transaction
KEY_LISTS ==
    SeqsUpTo(SECRET_KEYS, MaxKeys)
    \cup {<<SecretKey(3), SecretKey(1), SecretKey(2), SecretKey(4)>>}

\* transactions as the builders return them, and three a caller can encode
\* on its own: the empty transaction (no signer, no signature), one whose
\* signature list is empty, one whose key list is shorter than its count of
\* signers
TRANSACTIONS ==
    LET transferred == transfer(TransferBase.tree_config, TransferBase.leaf_owner,
                                TransferBase.leaf_delegate, TransferBase.new_leaf_owner,
                                TransferBase.merkle_tree, TransferBase.root,
                                TransferBase.data_hash, TransferBase.creator_hash,
                                TransferBase.nonce, TransferBase.index).val
        created == create_tree_config(CreateTreeBase.tree_config, CreateTreeBase.merkle_tree,
                                      CreateTreeBase.payer, CreateTreeBase.tree_creator,
                                      CreateTreeBase.max_depth,
                                      CreateTreeBase.max_buffer_size,
                                      CreateTreeBase.public, FALSE).val
    IN  {transferred, created,
         [signatures |-> <<>>,
          message |-> [header |-> [num_required_signatures |-> 0,
                                   num_readonly_signed_accounts |-> 0,
                                   num_readonly_unsigned_accounts |-> 0],
                       account_keys |-> <<>>,
                       recent_blockhash |-> Bytes(HASH_BYTES, 0),
                       instructions |-> <<>>]],
         [transferred EXCEPT !.signatures = <<>>],
         [transferred EXCEPT !.message.account_keys = <<>>]}

\* their encodings, and two byte sequences that are no transaction
TRANSACTION_BINARIES ==
    {bincode_serialize(t) : t \in TRANSACTIONS} \cup {<<>>, <<"bincode">>}

\* blockhashes the node may answer with: the one of an unsigned transaction
\* (all zero) and another
BLOCKHASHES == {Bytes(HASH_BYTES, 0), Bytes(HASH_BYTES, 77)}

\* the answer to a request: a value, or the error of the client
Response(ok, value) == IF ok THEN Ok(value) ELSE Err("rpc error")

-----------------------------------------------------------------------------
(* The state machine: one NIF call at a time *)

Init ==
    /\ pc = "idle"
    /\ op = "none"
    /\ args = <<>>
    /\ handed = <<>>
    /\ built = <<>>
    /\ result = [ret |-> "none"]
    /\ overflow_checks = FALSE
    /\ rpc = <<>>

Run(name, a, r) ==
    /\ pc = "idle"
    /\ pc' = "returned"
    /\ op' = name
    /\ args' = a
    /\ handed' = r.handed
    /\ built' = r.built
    /\ result' = r.result
    /\ UNCHANGED rpc

CallCreateTreeConfig ==
    \E a \in CreateTreeInputs, checks \in BOOLEAN :
        /\ Run("create_tree_config", a, nif_create_tree_config(a, checks))
        /\ overflow_checks' = checks

CallMintV1 ==
    \E a \in MintInputs :
        /\ Run("mint_v1", a, nif_mint_v1(a))
        /\ UNCHANGED overflow_checks

CallTransfer ==
    \E a \in TransferInputs :
        /\ Run("transfer", a, nif_transfer(a))
        /\ UNCHANGED overflow_checks

CallHashMetadata ==
    \E m \in MetadataInputs \cup {MetadataBase} :
        /\ Run("hash_metadata", [metadata |-> m], nif_hash_metadata([metadata |-> m]))
        /\ UNCHANGED overflow_checks

CallHashCreators ==
    \E cs \in SeqsUpTo(CREATORS, MaxCreators) :
        /\ Run("hash_creators", [creators |-> cs], nif_hash_creators([creators |-> cs]))
        /\ UNCHANGED overflow_checks

CallGetAssetId ==
    \E a \in AssetIdInputs :
        /\ Run("get_asset_id", a, nif_get_asset_id(a))
        /\ UNCHANGED overflow_checks

\* sign_and_submit_transaction is called: it returns at once on a failure of
\* the runtime, the decoding or a key, and else asks the node for a blockhash
CallSignAndSubmitTransaction ==
    \E b \in TRANSACTION_BINARIES, ks \in KEY_LISTS, runtime_ok \in BOOLEAN :
        LET a == [transaction_binary |-> b, secret_keys |-> ks]
            s == nif_sign_and_submit_transaction(
                     a, IF runtime_ok THEN Ok(<<>>) ELSE Err("os error"))
        IN  /\ pc = "idle"
            /\ pc' = s.pc
            /\ op' = "sign_and_submit_transaction"
            /\ args' = a
            /\ result' = s.result
            /\ rpc' = s.rpc
            /\ UNCHANGED <<handed, built, overflow_checks>>

\* client.get_latest_blockhash() comes back; on a blockhash the transaction
\* is signed and submitted
BlockhashAnswered ==
    /\ pc = "blockhash"
    /\ \E ok \in BOOLEAN, h \in BLOCKHASHES :
           LET s == sign_and_submit_transaction_signing(args, rpc, Response(ok, h))
           IN  /\ pc' = s.pc
               /\ result' = s.result
               /\ rpc' = s.rpc
    /\ UNCHANGED <<op, args, handed, built, overflow_checks>>

\* client.send_and_confirm_transaction(&transaction) comes back: with the
\* first signature of the transaction it sent, or with an error
SubmitAnswered ==
    /\ pc = "submit"
    /\ \E ok \in BOOLEAN :
           LET s == sign_and_submit_transaction_submitted(
                        rpc, Response(ok, rpc[2].params.signatures[1]))
           IN  /\ pc' = s.pc
               /\ result' = s.result
               /\ rpc' = s.rpc
    /\ UNCHANGED <<op, args, handed, built, overflow_checks>>

\* the call is over: nothing of it persists
Return ==
    /\ pc = "returned"
    /\ pc' = "idle"
    /\ op' = "none"
    /\ args' = <<>>
    /\ handed' = <<>>
    /\ built' = <<>>
    /\ result' = [ret |-> "none"]
    /\ overflow_checks' = FALSE
    /\ rpc' = <<>>

Next ==
    \/ CallCreateTreeConfig
    \/ CallMintV1
    \/ CallTransfer
    \/ CallHashMetadata
    \/ CallHashCreators
    \/ CallGetAssetId
    \/ CallSignAndSubmitTransaction
    \/ BlockhashAnswered
    \/ SubmitAnswered
    \/ Return

Spec == Init /\ [][Next]_vars

-----------------------------------------------------------------------------
(* Vocabulary of the properties *)

Returned(name) == pc = "returned" /\ op = name
Succeeded == result.ret = "tuple" /\ result.tag = "ok"
Rejected == result.ret = "Err" \/ (result.ret = "tuple" /\ result.tag = "error")

WellFormed(bytes) == Len(bytes) = PUBKEY_BYTES

RECURSIVE FromLE(_)
\* the unsigned integer a little-endian byte sequence stands for
FromLE(bytes) == IF bytes = <<>> THEN 0 ELSE Head(bytes) + 256 * FromLE(Tail(bytes))

\* the flags of a key in a compiled message, read off its header
KeyIsSigner(message, key) ==
    \E i \in 1..Len(message.account_keys) :
        /\ message.account_keys[i] = key
        /\ i <= message.header.num_required_signatures
KeyIsWritable(message, key) ==
    \E i \in 1..Len(message.account_keys) :
        /\ message.account_keys[i] = key
        /\ IF i <= message.header.num_required_signatures
           THEN i <= message.header.num_required_signatures
                     - message.header.num_readonly_signed_accounts
           ELSE i <= Len(message.account_keys)
                     - message.header.num_readonly_unsigned_accounts
Signers(message) ==
    {message.account_keys[i] : i \in 1..message.header.num_required_signatures}
FeePayer(message) == message.account_keys[1]
ProgramOf(message, i) ==
    message.account_keys[message.instructions[i].program_id_index]

\* the address and digest byte sequences among the arguments of the call
ByteArguments ==
    LET creatorAddrs(cs) == {cs[i].address : i \in 1..Len(cs)}
        ofMetadata(m) == creatorAddrs(m.creators)
                         \cup (IF m.collection.some THEN {m.collection.v.key} ELSE {})
    IN  CASE op = "create_tree_config" ->
                {args[f] : f \in CreateTreeFields}
          [] op = "mint_v1" ->
                {args[f] : f \in MintFields} \cup ofMetadata(args.metadata)
          [] op = "transfer" ->
                {args[f] : f \in TransferFields}
          [] op = "hash_metadata" -> ofMetadata(args.metadata)
          [] op = "hash_creators" -> creatorAddrs(args.creators)
          [] op = "get_asset_id" -> {args.tree}
          [] OTHER -> {}

\* a builder, a library hasher or the deriver was entered
CoreRan ==
    \E i \in 1..Len(handed) : handed[i].callee # "utils::hash_creators"

-----------------------------------------------------------------------------
(* C1 *)

\* C1 (as claimed): whenever an exported operation is called with an address
\* or digest whose length is not 32, the call fails with a parameter error
\* (it is rejected, it neither succeeds nor panics) and no builder, hasher or
\* deriver runs on the input.
C1_MalformedIsRejected ==
    (pc = "returned" /\ \E b \in ByteArguments : ~WellFormed(b))
        => (Rejected /\ ~CoreRan)

-----------------------------------------------------------------------------
(* C2 *)

TokenProgramVersionTable == <<"Original", "Token2022">>
TokenStandardTable == <<"NonFungible", "FungibleAsset", "Fungible", "NonFungibleEdition">>
UseMethodTable == <<"Burn", "Multiple", "Single">>

InTable(code, table) == code \in 0..(Len(table) - 1)

\* the conversion of the metadata is observable in mint_v1 (once its six
\* addresses converted) and in hash_metadata
MetadataConverted ==
    \/ Returned("hash_metadata")
    \/ Returned("mint_v1") /\ \A f \in MintFields : WellFormed(args[f])

\* C2: the conversion of metadata succeeds only with all three codes in range,
\* and then yields exactly the variants of the fixed table (an absent
\* token_standard or uses stays absent); a code out of range is rejected with
\* the message naming the field and the code, whatever the other fields are
\* (for use_method: once the collection before it converted); with all codes
\* in range and all addresses of the metadata well-formed it succeeds.
C2_EnumCodesByTable ==
    MetadataConverted =>
        LET m == args.metadata
            tpvOk == InTable(m.token_program_version, TokenProgramVersionTable)
            tsOk == m.token_standard.some => InTable(m.token_standard.v, TokenStandardTable)
            umOk == m.uses.some => InTable(m.uses.v.use_method, UseMethodTable)
            collOk == m.collection.some => WellFormed(m.collection.v.key)
            creatorsOk == \A i \in 1..Len(m.creators) : WellFormed(m.creators[i].address)
        IN  /\ CoreRan =>
                LET out == handed[1].with.metadata
                IN  /\ tpvOk /\ tsOk /\ umOk
                    /\ out.token_program_version
                           = TokenProgramVersionTable[m.token_program_version + 1]
                    /\ out.token_standard.some = m.token_standard.some
                    /\ m.token_standard.some =>
                           out.token_standard.v = TokenStandardTable[m.token_standard.v + 1]
                    /\ out.uses.some = m.uses.some
                    /\ m.uses.some =>
                           out.uses.v.use_method = UseMethodTable[m.uses.v.use_method + 1]
            /\ ~tpvOk =>
                   result = ReturnedErr(<<"Invalid token program version",
                                          m.token_program_version>>)
            /\ (tpvOk /\ ~tsOk) =>
                   result = ReturnedErr(<<"Invalid token standard", m.token_standard.v>>)
            /\ (tpvOk /\ tsOk /\ collOk /\ ~umOk) =>
                   result = ReturnedErr(<<"Invalid use method", m.uses.v.use_method>>)
            /\ (~tpvOk \/ ~tsOk \/ ~umOk) => ~CoreRan /\ ~Succeeded
            /\ (tpvOk /\ tsOk /\ umOk /\ collOk /\ creatorsOk) => CoreRan /\ Succeeded

\* a conversion that succeeded on the last code of each table
C2_Witness ==
    /\ Returned("mint_v1") /\ Succeeded
    /\ args.metadata.token_program_version = 1
    /\ args.metadata.token_standard = Some(3)
    /\ args.metadata.uses.some /\ args.metadata.uses.v.use_method = 2
    /\ handed[1].with.metadata.token_standard = Some("NonFungibleEdition")

-----------------------------------------------------------------------------
(* C3 *)

\* C3 (as claimed): every call of an exported core operation, on every input,
\* comes back as a value returned to the caller (a success carrying the
\* result or a failure carrying a message); it never panics.
C3_AlwaysTaggedOutcome ==
    pc = "returned" => (Succeeded \/ Rejected)

-----------------------------------------------------------------------------
(* C4 *)

Distinct(keys) == \A i, j \in 1..Len(keys) : i # j => keys[i] # keys[j]

CreateTreeDistinct ==
    /\ Returned("create_tree_config") /\ Succeeded
    /\ Distinct(<<args.tree_config, args.merkle_tree, args.payer, args.tree_creator>>)

\* C4 (as claimed): in the transaction create_tree_config returns, for pairwise
\* distinct addresses, tree_config is writable and not a signer, merkle_tree is
\* writable, payer is a writable signer, tree_creator is a signer, and nobody
\* but payer and tree_creator has to sign.
C4_OutputFlagsAsClaimed ==
    CreateTreeDistinct =>
        LET message == result.val.message
        IN  /\ KeyIsWritable(message, args.tree_config)
            /\ ~KeyIsSigner(message, args.tree_config)
            /\ KeyIsWritable(message, args.merkle_tree)
            /\ KeyIsSigner(message, args.payer) /\ KeyIsWritable(message, args.payer)
            /\ KeyIsSigner(message, args.tree_creator)
            /\ Signers(message) \subseteq {args.payer, args.tree_creator}

\* C4 (amended): the flags hold of the ledger-program instruction that
\* create_tree_config builds, the last of its instructions: there tree_config is
\* writable and not a signer, merkle_tree is writable and not a signer, payer is
\* a writable signer, tree_creator is a read-only signer, and no other account
\* of it signs.  In the returned transaction the writable flags are the same,
\* but the required signers are payer, tree_creator, tree_config and
\* merkle_tree: the last two are the new accounts of the two create_account
\* instructions.
C4_LedgerInstructionFlags ==
    CreateTreeDistinct =>
        LET message == result.val.message
            ix == built[Len(built)]
            meta(key) == CHOOSE m \in {ix.accounts[i] : i \in 1..Len(ix.accounts)} :
                             m.pubkey = key
        IN  /\ ix.program_id = BUBBLEGUM_ID
            /\ meta(args.tree_config).is_writable /\ ~meta(args.tree_config).is_signer
            /\ meta(args.merkle_tree).is_writable /\ ~meta(args.merkle_tree).is_signer
            /\ meta(args.payer).is_writable /\ meta(args.payer).is_signer
            /\ ~meta(args.tree_creator).is_writable /\ meta(args.tree_creator).is_signer
            /\ \A i \in 1..Len(ix.accounts) :
                   ix.accounts[i].is_signer =>
                       ix.accounts[i].pubkey \in {args.payer, args.tree_creator}
            /\ Signers(message) = {args.payer, args.tree_creator,
                                   args.tree_config, args.merkle_tree}
            /\ KeyIsWritable(message, args.tree_config)
            /\ KeyIsWritable(message, args.merkle_tree)
            /\ KeyIsWritable(message, args.payer)
            /\ ~KeyIsWritable(message, args.tree_creator)

\* a transaction built for four distinct addresses in which tree_config signs
C4_Witness ==
    /\ CreateTreeDistinct
    /\ KeyIsSigner(result.val.message, args.tree_config)
    /\ Len(built) = 3

-----------------------------------------------------------------------------
(* C5 *)

BuilderSucceeded ==
    /\ pc = "returned" /\ Succeeded
    /\ op \in {"create_tree_config", "mint_v1", "transfer"}

DesignatedFeePayer ==
    IF op = "transfer" THEN args.leaf_owner ELSE args.payer

\* C5 (as claimed): every builder returns a transaction of exactly one
\* instruction, addressed to the ledger program, with the designated fee payer.
C5_SingleInstruction ==
    BuilderSucceeded =>
        LET message == result.val.message
        IN  /\ Len(message.instructions) = 1
            /\ ProgramOf(message, 1) = BUBBLEGUM_ID
            /\ FeePayer(message) = DesignatedFeePayer

\* C5 (amended): mint_v1 and transfer return a transaction of exactly one
\* instruction, addressed to the ledger program, with payer (mint_v1) or
\* leaf_owner (transfer) as fee payer.  create_tree_config returns three
\* instructions with payer as fee payer: two system-program create_account
\* instructions, for tree_config (owned by the ledger program) and merkle_tree
\* (owned by the compression program), then the one ledger-program instruction.
C5_InstructionsPerBuilder ==
    BuilderSucceeded =>
        LET message == result.val.message
            n == Len(message.instructions)
        IN  /\ FeePayer(message) = DesignatedFeePayer
            /\ n = Len(built)
            /\ ProgramOf(message, n) = BUBBLEGUM_ID
            /\ \A i \in 1..n : message.instructions[i].data = built[i].data
            /\ op \in {"mint_v1", "transfer"} => n = 1
            /\ op = "create_tree_config" =>
                   /\ n = 3
                   /\ ProgramOf(message, 1) = SYSTEM_PROGRAM_ID
                   /\ ProgramOf(message, 2) = SYSTEM_PROGRAM_ID
                   /\ built[1].accounts[1].pubkey = args.payer
                   /\ built[1].accounts[2].pubkey = args.tree_config
                   /\ SubSeq(built[1].data, 21, 20 + PUBKEY_BYTES) = BUBBLEGUM_ID
                   /\ built[2].accounts[1].pubkey = args.payer
                   /\ built[2].accounts[2].pubkey = args.merkle_tree
                   /\ SubSeq(built[2].data, 21, 20 + PUBKEY_BYTES)
                          = SPL_ACCOUNT_COMPRESSION_ID

\* a create_tree_config transaction with its three instructions
C5_Witness ==
    /\ Returned("create_tree_config") /\ Succeeded
    /\ Len(result.val.message.instructions) = 3
    /\ ProgramOf(result.val.message, 3) = BUBBLEGUM_ID

-----------------------------------------------------------------------------
(* C6 *)

\* C6 (as claimed): in the transaction transfer returns, leaf_owner is a signer
\* and leaf_delegate is not, for every choice of the addresses, also when
\* leaf_delegate equals leaf_owner.
C6_DelegateNeverSigner ==
    (Returned("transfer") /\ Succeeded) =>
        /\ KeyIsSigner(result.val.message, args.leaf_owner)
        /\ ~KeyIsSigner(result.val.message, args.leaf_delegate)

\* C6 (amended): the instruction transfer builds always carries leaf_owner
\* with the signer flag and leaf_delegate without it, and in the returned
\* transaction leaf_owner is a signer, the only one; leaf_delegate is no signer
\* there exactly when it differs from leaf_owner: when the two are the same
\* address, that one account key is a signer.
C6_DelegateSignerOnlyAsOwner ==
    (Returned("transfer") /\ Succeeded) =>
        LET message == result.val.message
            ix == built[1]
        IN  /\ ix.accounts[2] = AccountMeta(args.leaf_owner, TRUE, FALSE)
            /\ ix.accounts[3] = AccountMeta(args.leaf_delegate, FALSE, FALSE)
            /\ Signers(message) = {args.leaf_owner}
            /\ KeyIsSigner(message, args.leaf_delegate)
                   <=> args.leaf_delegate = args.leaf_owner
            /\ message.account_keys[message.instructions[1].accounts[2]] = args.leaf_owner
            /\ message.account_keys[message.instructions[1].accounts[3]] = args.leaf_delegate

\* a transfer whose delegate is the owner, and so a signer of the transaction
C6_Witness ==
    /\ Returned("transfer") /\ Succeeded
    /\ args.leaf_delegate = args.leaf_owner
    /\ KeyIsSigner(result.val.message, args.leaf_delegate)

-----------------------------------------------------------------------------
(* C7 *)

\* C7: the payload of the instruction transfer builds is the 8-byte
\* discriminator, then root, data_hash and creator_hash as supplied, then the
\* nonce on 8 bytes and the index on 4 bytes, both little-endian, and nothing
\* after them.
C7_TransferPayload ==
    (Returned("transfer") /\ Succeeded) =>
        LET data == result.val.message.instructions[1].data
            h == HASH_BYTES
        IN  /\ Len(data) = 8 + 3 * h + 8 + 4
            /\ SubSeq(data, 1, 8) = TRANSFER_DISCRIMINATOR
            /\ SubSeq(data, 9, 8 + h) = args.root
            /\ SubSeq(data, 9 + h, 8 + 2 * h) = args.data_hash
            /\ SubSeq(data, 9 + 2 * h, 8 + 3 * h) = args.creator_hash
            /\ FromLE(SubSeq(data, 9 + 3 * h, 16 + 3 * h)) = args.nonce
            /\ FromLE(SubSeq(data, 17 + 3 * h, 20 + 3 * h)) = args.index
            /\ data = built[1].data

\* a transfer of nonce 5 and index 5 whose two leaf digests differ
C7_Witness ==
    /\ Returned("transfer") /\ Succeeded
    /\ args.nonce = 5 /\ args.index = 5
    /\ args.data_hash # args.creator_hash
    /\ args.root # args.data_hash

-----------------------------------------------------------------------------
(* C8 *)

\* C8: in the ledger instruction of create_tree_config the arguments after the
\* discriminator are max_depth and max_buffer_size as supplied (4 bytes each,
\* little-endian), then the optional public flag: the absent marker alone when
\* the caller supplied none, the present marker and exactly the supplied
\* boolean when the caller supplied one.
C8_PublicOnlyWhenSupplied ==
    (Returned("create_tree_config") /\ Succeeded) =>
        LET data == result.val.message.instructions[3].data
        IN  /\ SubSeq(data, 1, 8) = CREATE_TREE_CONFIG_DISCRIMINATOR
            /\ FromLE(SubSeq(data, 9, 12)) = args.max_depth
            /\ FromLE(SubSeq(data, 13, 16)) = args.max_buffer_size
            /\ ~args.public.some => SubSeq(data, 17, Len(data)) = <<0>>
            /\ args.public.some =>
                   SubSeq(data, 17, Len(data)) = <<1, IF args.public.v THEN 1 ELSE 0>>

\* a tree created without a public flag, with other numbers than the usual
C8_Witness ==
    /\ Returned("create_tree_config") /\ Succeeded
    /\ ~args.public.some
    /\ args.max_depth = 5 /\ args.max_buffer_size = 64
    /\ Len(result.val.message.instructions[3].data) = 17

-----------------------------------------------------------------------------
(* C9 *)

SameCreators(out, in) ==
    /\ Len(out) = Len(in)
    /\ \A i \in 1..Len(in) :
           /\ out[i].address = in[i].address
           /\ out[i].verified = in[i].verified
           /\ out[i].share = in[i].share

\* the creators at the end of a mint payload, read back from the bytes
PayloadCreators(data, n) ==
    LET size == PUBKEY_BYTES + 2
        start == Len(data) - n * size
    IN  [i \in 1..n |->
            [address |-> SubSeq(data, start + (i - 1) * size + 1,
                                start + (i - 1) * size + PUBKEY_BYTES),
             verified |-> data[start + (i - 1) * size + PUBKEY_BYTES + 1] = 1,
             share |-> data[start + i * size]]]

\* C9: whenever hash_creators, hash_metadata or mint_v1 gets as far as the
\* hasher or the builder, the creators handed over are the supplied ones,
\* position by position, with the same address, verified flag and share; and
\* the mint payload ends with exactly these creators, after their count.
C9_CreatorOrderPreserved ==
    /\ (Returned("hash_creators") /\ Succeeded) =>
           /\ Len(handed) = 2
           /\ SameCreators(handed[2].with.creators, args.creators)
           /\ result.val.bytes = Keccak(Concat([i \in 1..Len(args.creators) |->
                   args.creators[i].address
                   \o <<BoolByte(args.creators[i].verified), args.creators[i].share>>]))
    /\ (Returned("hash_metadata") /\ Succeeded) =>
           /\ SameCreators(handed[1].with.metadata.creators, args.metadata.creators)
           /\ SameCreators(handed[2].with.metadata.creators, args.metadata.creators)
    /\ (Returned("mint_v1") /\ Succeeded) =>
           LET data == result.val.message.instructions[1].data
               n == Len(args.metadata.creators)
           IN  /\ SameCreators(handed[1].with.metadata.creators, args.metadata.creators)
               /\ SameCreators(PayloadCreators(data, n), args.metadata.creators)
               /\ FromLE(SubSeq(data, Len(data) - n * (PUBKEY_BYTES + 2) - 3,
                                Len(data) - n * (PUBKEY_BYTES + 2))) = n

\* two different creators, the unverified one first, hashed in that order
C9_Witness ==
    /\ Returned("hash_creators") /\ Succeeded
    /\ Len(args.creators) = 2
    /\ args.creators[1].address # args.creators[2].address
    /\ ~args.creators[1].verified /\ args.creators[2].verified
    /\ handed[2].with.creators[1].address = args.creators[1].address

-----------------------------------------------------------------------------
(* C10 *)

\* C10 (as claimed): get_asset_id on a well-formed tree address returns the
\* candidate of the largest bump in 0..255 whose candidate is off the curve,
\* and returns a failure to the caller, without panicking, when no bump in
\* 0..255 gives a candidate off the curve.
C10_DerivationHandled ==
    (Returned("get_asset_id") /\ WellFormed(args.tree)) =>
        LET viable == {b \in 0..U8_MAX : b \notin args.on_curve}
            largest == CHOOSE b \in viable : \A o \in viable : o <= b
        IN  IF viable = {}
            THEN Rejected
            ELSE /\ Succeeded
                 /\ result.val.bytes =
                        Sha256(ASSET_PREFIX \o args.tree \o LE(args.nonce, 8)
                               \o <<largest>> \o BUBBLEGUM_ID)

-----------------------------------------------------------------------------
(* C11 *)

\* the space requested for the merkle_tree account: the third field of the
\* data of the second create_account instruction (after the 4-byte instruction
\* index and the 8-byte lamports)
MerkleTreeSpace == FromLE(SubSeq(built[2].data, 13, 20))

\* 72 + 32*2^(max_depth-1) + 32*2^(max_depth+1) + 32*max_buffer_size, the
\* value over the integers; 32*2^(max_depth-1) is 2^(max_depth+4).  From
\* max_depth + 6 = word width on the value exceeds every usize.
ClaimedSize(max_depth, max_buffer_size) ==
    HEADER_SIZE + Pow2(max_depth + 4) + Pow2(max_depth + 6) + 32 * max_buffer_size

\* C11 (as claimed): for every max_depth and max_buffer_size, max_depth = 0 and
\* max_depth at or above the word width included, create_tree_config on
\* well-formed addresses returns a tagged outcome, and the account size it
\* requests for the tree is 72 + 32*2^(max_depth-1) + 32*2^(max_depth+1)
\* + 32*max_buffer_size, computed without underflow, oversized shift or overflow.
C11_TreeSizeForEveryDepth ==
    (Returned("create_tree_config") /\ \A f \in CreateTreeFields : WellFormed(args[f])) =>
        /\ Succeeded \/ Rejected
        /\ Succeeded =>
               /\ args.max_depth + 6 < USIZE_BITS
               /\ MerkleTreeSpace = ClaimedSize(args.max_depth, args.max_buffer_size)

-----------------------------------------------------------------------------
(* C12 *)

\* the requests of the current call that submit a transaction
Submissions == {i \in 1..Len(rpc) : rpc[i].method = "sendTransaction"}

\* at most one submission, and none before the transaction decoded, every key
\* parsed, the node answered the blockhash request with a blockhash, and the
\* transaction sent carries that blockhash and a signature in every slot
SubmitsOnceAfterSigning ==
    /\ Cardinality(Submissions) <= 1
    /\ \A i \in Submissions :
           /\ bincode_deserialize(args.transaction_binary).kind = "Ok"
           /\ parse_keypairs(args.secret_keys).kind = "Ok"
           /\ i = 2
           /\ rpc[1].method = "getLatestBlockhash"
           /\ rpc[1].response.kind = "Ok"
           /\ rpc[i].params.message.recent_blockhash = rpc[1].response.val
           /\ rpc[i].params.signatures # <<>>
           /\ is_signed(rpc[i].params)

\* C12 (as claimed): sign_and_submit_transaction, for every transaction byte
\* sequence, every list of secret keys (empty, malformed, or not matching the
\* required signers) and every answer of the node, returns either a
\* transaction identifier or an error string, and it submits at most once and
\* only after decoding, key parsing, blockhash fetch and signing all succeeded.
C12_IdentifierOrErrorString ==
    op = "sign_and_submit_transaction" =>
        /\ pc = "returned" =>
               \/ Succeeded /\ result.val = Signature_to_string(rpc[2].params.signatures[1])
               \/ Rejected
        /\ SubmitsOnceAfterSigning

====
